---------------------------- MODULE Spec2Model ----------------------------
(***************************************************************************)
(* Model of the SoundScript Unicode codec (src/soundscript_unicode.py):    *)
(* the 12-bit symbol alphabet, the byte packer, the run/pattern            *)
(* compressor and the container framing of encode_file / decode_string.    *)
(*                                                                         *)
(* A str is modelled as a sequence of code points (naturals), a bytes      *)
(* object as a sequence of naturals in 0..255.  Python indices are         *)
(* 0-based: At(s, k) is s[k].  A call that can raise is modelled by a      *)
(* record [ok, val]; ok = FALSE stands for the raised ValueError.          *)
(***************************************************************************)
EXTENDS Integers, Sequences, FiniteSets, TLC

(***************************************************************************)
(* Bounds of the explored inputs.                                          *)
(***************************************************************************)
MaxLen == 4        \* longest exhaustively enumerated input buffer
MaxRun == 4097     \* longest run of identical bytes in an input buffer
MaxPayload == 4    \* longest payload of a hand-made artifact
VMargin == 3       \* integers tried beyond both ends of the 12-bit range

(***************************************************************************)
(* Class attributes.                                                       *)
(***************************************************************************)
\* FORMAT_MAP in the order of the dict literal: <<extension, tag string>>.
\* A tag written with a variation selector (U+FE0F = 65039) is a string of
\* two code points.
FORMAT_MAP ==
    <<
       <<".mp3", <<127925>>>>,
       <<".wav", <<127754>>>>,
       <<".flac", <<128142>>>>,
       <<".aac", <<127822>>>>,
       <<".ogg", <<127911>>>>,
       <<".m4a", <<128241>>>>,
       <<".aiff", <<127929>>>>,
       <<".wma", <<129695>>>>,
       <<".opus", <<127914>>>>,
       <<".alac", <<127823>>>>,
       <<".mp4", <<127916>>>>,
       <<".avi", <<127902, 65039>>>>,
       <<".mkv", <<128249>>>>,
       <<".mov", <<127909>>>>,
       <<".wmv", <<127910>>>>,
       <<".flv", <<128250>>>>,
       <<".webm", <<127760>>>>,
       <<".m4v", <<128252>>>>,
       <<".jpg", <<128444, 65039>>>>,
       <<".jpeg", <<128444, 65039>>>>,
       <<".png", <<127912>>>>,
       <<".gif", <<127917>>>>,
       <<".bmp", <<127966, 65039>>>>,
       <<".svg", <<9999, 65039>>>>,
       <<".webp", <<127752>>>>,
       <<".ico", <<128311>>>>,
       <<".tiff", <<128248>>>>,
       <<".pdf", <<128213>>>>,
       <<".doc", <<128216>>>>,
       <<".docx", <<128215>>>>,
       <<".txt", <<128196>>>>,
       <<".rtf", <<128195>>>>,
       <<".odt", <<128203>>>>,
       <<".ppt", <<128202>>>>,
       <<".pptx", <<128200>>>>,
       <<".odp", <<128201>>>>,
       <<".key", <<127919>>>>,
       <<".xls", <<128202>>>>,
       <<".xlsx", <<128209>>>>,
       <<".csv", <<128221>>>>,
       <<".ods", <<128208>>>>,
       <<".zip", <<128476, 65039>>>>,
       <<".rar", <<128230>>>>,
       <<".7z", <<127873>>>>,
       <<".tar", <<128238>>>>,
       <<".gz", <<128168>>>>,
       <<".bz2", <<127788, 65039>>>>,
       <<".xz", <<9889>>>>,
       <<".py", <<128013>>>>,
       <<".js", <<128220>>>>,
       <<".java", <<9749>>>>,
       <<".c", <<9881, 65039>>>>,
       <<".cpp", <<128295>>>>,
       <<".cs", <<127918>>>>,
       <<".html", <<127760>>>>,
       <<".css", <<127912>>>>,
       <<".php", <<128024>>>>,
       <<".rb", <<128142>>>>,
       <<".go", <<128057>>>>,
       <<".rs", <<129408>>>>,
       <<".swift", <<128330, 65039>>>>,
       <<".kt", <<127919>>>>,
       <<".ts", <<128216>>>>,
       <<".json", <<128202>>>>,
       <<".xml", <<128203>>>>,
       <<".yaml", <<9881, 65039>>>>,
       <<".yml", <<9881, 65039>>>>,
       <<".toml", <<128295>>>>,
       <<".ini", <<9889>>>>,
       <<".cfg", <<128736, 65039>>>>,
       <<".exe", <<9881, 65039>>>>,
       <<".dll", <<128279>>>>,
       <<".so", <<128268>>>>,
       <<".app", <<128241>>>>,
       <<".dmg", <<128191>>>>,
       <<".iso", <<128189>>>>,
       <<".md", <<128221>>>>,
       <<".log", <<128220>>>>,
       <<".bin", <<128290>>>>,
       <<".dat", <<128190>>>>,
       <<".db", <<128452, 65039>>>>,
       <<".sql", <<128451, 65039>>>>,
       <<".sqlite", <<128189>>>>,
       <<"", <<128230>>>>,
       <<".unknown", <<10067>>>>
    >>

PRIVATE_USE_START == 57344     \* 0xE000
PRIVATE_USE_END == 63743       \* 0xF8FF
CHARSET_SIZE == PRIVATE_USE_END - PRIVATE_USE_START + 1

\* SPECIAL_CHARS
zero_run == 9899               \* U+26AB
one_run == 9898                \* U+26AA
repeat_2 == 128257             \* U+1F501
escape == 128682               \* U+1F6AA
end_marker == 127937           \* U+1F3C1
SPECIAL_CHARS == {zero_run, one_run, repeat_2, escape, end_marker}

\* dict semantics: a key maps to the value of its last occurrence.
FormatKeys == {FORMAT_MAP[k][1] : k \in DOMAIN FORMAT_MAP}

FormatGet(ext) ==
    LET ks == {k \in DOMAIN FORMAT_MAP : FORMAT_MAP[k][1] = ext}
    IN  FORMAT_MAP[CHOOSE k \in ks : \A m \in ks : m <= k][2]

ReverseKeys == {FORMAT_MAP[k][2] : k \in DOMAIN FORMAT_MAP}

\* REVERSE_FORMAT_MAP built so that the first item of a tag is kept.
REVERSE_FORMAT_MAP_FirstWins(tag) ==
    LET ks == {k \in DOMAIN FORMAT_MAP : FORMAT_MAP[k][2] = tag}
    IN  FORMAT_MAP[CHOOSE k \in ks : \A m \in ks : m >= k][1]

\* REVERSE_FORMAT_MAP = {v: k for k, v in FORMAT_MAP.items()}: later items
\* overwrite earlier ones.
REVERSE_FORMAT_MAP(tag) ==
    LET ks == {k \in DOMAIN FORMAT_MAP : FORMAT_MAP[k][2] = tag}
    IN  FORMAT_MAP[CHOOSE k \in ks : \A m \in ks : m <= k][1]

(***************************************************************************)
(* __init__                                                                *)
(***************************************************************************)
RECURSIVE Pow2(_)
Pow2(n) == IF n = 0 THEN 1 ELSE 2 * Pow2(n - 1)

\* math.floor(math.log2(CHARSET_SIZE))
bits_per_char ==
    CHOOSE b \in 0..30 : Pow2(b) <= CHARSET_SIZE /\ CHARSET_SIZE < Pow2(b + 1)

values_per_char == Pow2(bits_per_char)

(***************************************************************************)
(* Python helpers.                                                         *)
(***************************************************************************)
Ok(v) == [ok |-> TRUE, val |-> v]
Raise == [ok |-> FALSE, val |-> 0]

At(s, k) == s[k + 1]

Min(a, b) == IF a <= b THEN a ELSE b

\* s[a:b] for 0 <= a, with b clipped to len(s)
Slice(s, a, b) ==
    LET e == Min(b, Len(s))
    IN  IF a >= e THEN << >> ELSE [k \in 1..(e - a) |-> s[a + k]]

\* bitwise or of naturals
RECURSIVE BitOr(_, _)
BitOr(a, b) ==
    IF a = 0 THEN b
    ELSE IF b = 0 THEN a
    ELSE (IF a % 2 = 1 \/ b % 2 = 1 THEN 1 ELSE 0)
         + 2 * BitOr(a \div 2, b \div 2)

\* [b] * n
Repeat(b, n) == [k \in 1..n |-> b]

\* chr(c): defined for 0 <= c <= 0x10FFFF, ValueError otherwise
Chr(c) == IF c < 0 \/ c > 1114111 THEN Raise ELSE Ok(c)

(***************************************************************************)
(* SymbolAlphabet                                                          *)
(***************************************************************************)
_int_to_unicode(value) ==
    IF value >= values_per_char THEN Raise
    ELSE Chr(PRIVATE_USE_START + value)

_unicode_to_int(char) ==
    IF char < PRIVATE_USE_START \/ char > PRIVATE_USE_END THEN Raise
    ELSE Ok(char - PRIVATE_USE_START)

\* the symbol of a value the encoder knows to be in range
Sym(value) == _int_to_unicode(value).val

(***************************************************************************)
(* _encode_bytes: one iteration of the while loop at cursor i.             *)
(***************************************************************************)
RUN_LOOP_BOUND == 4096         \* "zero_count < 4096", "one_count < 4096"
PATTERN_LOOP_BOUND == 256      \* "repeat_count < 256"

\* count = 1
\* while i + count < len(data) and data[i + count] == b and count < 4096:
\*     count += 1
\* The loop leaves count at the first value, from 1 upwards, at which its
\* condition is false.
RunCond(data, i, b, count) ==
    i + count < Len(data) /\ At(data, i + count) = b /\ count < RUN_LOOP_BOUND

RunCount(data, i, b) ==
    CHOOSE count \in 1..RUN_LOOP_BOUND :
        /\ ~RunCond(data, i, b, count)
        /\ \A c \in 1..(count - 1) : RunCond(data, i, b, c)

\* repeat_count = 2; j = i + 4
\* while j + 1 < len(data) and data[j:j+2] == pattern_2 and repeat_count < 256:
\*     repeat_count += 1; j += 2
\* Throughout the loop j = i + 2 * repeat_count.
RepeatCond(data, i, repeat_count) ==
    LET j == i + 2 * repeat_count
    IN  /\ j + 1 < Len(data)
        /\ Slice(data, j, j + 2) = Slice(data, i, i + 2)
        /\ repeat_count < PATTERN_LOOP_BOUND

RepeatCount(data, i) ==
    CHOOSE repeat_count \in 2..PATTERN_LOOP_BOUND :
        /\ ~RepeatCond(data, i, repeat_count)
        /\ \A c \in 2..(repeat_count - 1) : RepeatCond(data, i, c)

\* the count written into a zero/one run token
StoredRunCount(count) == Min(count, values_per_char - 1)

\* the branch the iteration at cursor i takes (first match wins)
EncodeBranch(data, i) ==
    IF At(data, i) = 0 /\ RunCount(data, i, 0) >= 4 THEN "zero_run"
    ELSE IF At(data, i) = 255 /\ RunCount(data, i, 255) >= 4 THEN "one_run"
    ELSE IF /\ i + 3 < Len(data)
            /\ Slice(data, i + 2, i + 4) = Slice(data, i, i + 2)
            /\ RepeatCount(data, i) >= 3
         THEN "repeat_2"
    ELSE IF i + 1 < Len(data)
         THEN (IF i + 2 < Len(data) THEN "pack3" ELSE "pack2")
    ELSE "pack1"

EncodeZeroRun(data, i, result) ==
    LET zero_count == RunCount(data, i, 0)
    IN  [i |-> i + zero_count,
         result |-> result \o <<zero_run, Sym(StoredRunCount(zero_count))>>]

EncodeOneRun(data, i, result) ==
    LET one_count == RunCount(data, i, 255)
    IN  [i |-> i + one_count,
         result |-> result \o <<one_run, Sym(StoredRunCount(one_count))>>]

\* EncodePattern with the low motif symbol masked to 8 bits instead of 12.
EncodePattern_LowByteMask(data, i, result) ==
    LET pattern_2 == Slice(data, i, i + 2)
        repeat_count == RepeatCount(data, i)
        pattern_val == pattern_2[1] * 256 + pattern_2[2]
    IN  [i |-> i + repeat_count * 2,
         result |-> result \o <<repeat_2,
                                Sym(pattern_val \div Pow2(bits_per_char)),
                                Sym(pattern_val % 256),
                                Sym(repeat_count)>>]

EncodePattern(data, i, result) ==
    LET pattern_2 == Slice(data, i, i + 2)
        repeat_count == RepeatCount(data, i)
        pattern_val == pattern_2[1] * 256 + pattern_2[2]
    IN  [i |-> i + repeat_count * 2,
         result |-> result \o <<repeat_2,
                                Sym(pattern_val \div Pow2(bits_per_char)),
                                Sym(pattern_val % Pow2(bits_per_char)),
                                Sym(repeat_count)>>]

\* EncodePack taking the third byte only when a fourth one follows
\* (i + 3 < len(data)).
EncodePack_ThirdByteLate(data, i, result) ==
    IF i + 1 < Len(data)
    THEN LET byte1 == At(data, i)
             byte2 == At(data, i + 1)
             value_12bit == (byte1 * 16 + byte2 \div 16) % 4096
         IN  IF i + 3 < Len(data)
             THEN [i |-> i + 3,
                   result |-> result \o
                       <<Sym(value_12bit),
                         Sym((byte2 % 16) * 256 + At(data, i + 2))>>]
             ELSE [i |-> i + 2,
                   result |-> result \o
                       <<Sym(value_12bit), Sym((byte2 % 16) * 256)>>]
    ELSE [i |-> i + 1, result |-> Append(result, Sym(At(data, i) * 16))]

\* standard 12-bit encoding of up to three bytes
EncodePack(data, i, result) ==
    IF i + 1 < Len(data)
    THEN LET byte1 == At(data, i)
             byte2 == At(data, i + 1)
             value_12bit == (byte1 * 16 + byte2 \div 16) % 4096
         IN  IF i + 2 < Len(data)
             THEN [i |-> i + 3,
                   result |-> result \o
                       <<Sym(value_12bit),
                         Sym((byte2 % 16) * 256 + At(data, i + 2))>>]
             ELSE [i |-> i + 2,
                   result |-> result \o
                       <<Sym(value_12bit), Sym((byte2 % 16) * 256)>>]
    ELSE [i |-> i + 1, result |-> Append(result, Sym(At(data, i) * 16))]

EncodeStep(data, i, result) ==
    LET br == EncodeBranch(data, i)
    IN  IF br = "zero_run" THEN EncodeZeroRun(data, i, result)
        ELSE IF br = "one_run" THEN EncodeOneRun(data, i, result)
        ELSE IF br = "repeat_2" THEN EncodePattern(data, i, result)
        ELSE EncodePack(data, i, result)

RECURSIVE EncodeLoop(_, _, _)
EncodeLoop(data, i, result) ==
    IF i < Len(data)
    THEN LET s == EncodeStep(data, i, result)
         IN  EncodeLoop(data, s.i, s.result)
    ELSE result

_encode_bytes(data) == EncodeLoop(data, 0, << >>)

(***************************************************************************)
(* encode_file, from the suffix and the bytes read from the file.          *)
(***************************************************************************)
\* format_char for the lower-cased suffix ext
FormatChar(ext) ==
    IF ext \notin FormatKeys THEN FormatGet("") ELSE FormatGet(ext)

\* for _ in range(4): size_chars.append(byte_count & 0xFFF); byte_count >>= 12
\* size_header = ''.join(reversed(size_chars))
SizeHeader(byte_count) ==
    LET c0 == byte_count % 4096
        r1 == byte_count \div 4096
        c1 == r1 % 4096
        r2 == r1 \div 4096
        c2 == r2 % 4096
        r3 == r2 \div 4096
        c3 == r3 % 4096
    IN  <<Sym(c3), Sym(c2), Sym(c1), Sym(c0)>>

Frame(format_char, data, encoded_data) ==
    format_char \o SizeHeader(Len(data)) \o encoded_data \o <<end_marker>>

encode_file(data, ext) == Frame(FormatChar(ext), data, _encode_bytes(data))

(***************************************************************************)
(* _decode_to_bytes: one iteration of the while loop.  The loop state is   *)
(* [ok, i, result, bit_buffer, bit_count]; ok = FALSE when the iteration   *)
(* raised ValueError (the state is then the one before the iteration).     *)
(***************************************************************************)
DecState(i, result, bit_buffer, bit_count) ==
    [ok |-> TRUE, i |-> i, result |-> result,
     bit_buffer |-> bit_buffer, bit_count |-> bit_count]

DecRaise(st) == [st EXCEPT !.ok = FALSE]

DecodeBranch(encoded, i) ==
    LET char == At(encoded, i)
    IN  IF char = zero_run THEN "zero_run"
        ELSE IF char = one_run THEN "one_run"
        ELSE IF char = repeat_2 THEN "repeat_2"
        ELSE IF _unicode_to_int(char).ok THEN "standard"
        ELSE "skip"

\* zero_run / one_run token: the byte b repeated count times
DecodeRun(encoded, st, b) ==
    LET i == st.i + 1
    IN  IF i < Len(encoded)
        THEN LET count == _unicode_to_int(At(encoded, i))
             IN  IF ~count.ok THEN DecRaise(st)
                 ELSE [st EXCEPT !.i = i + 1,
                                 !.result = st.result \o Repeat(b, count.val)]
        ELSE [st EXCEPT !.i = i]

\* for _ in range(count): result.append(byte1); result.append(byte2)
PatternBytes(byte1, byte2, count) ==
    [k \in 1..(2 * count) |-> IF k % 2 = 1 THEN byte1 ELSE byte2]

DecodeRepeat(encoded, st) ==
    LET i == st.i + 1
    IN  IF i + 2 < Len(encoded)
        THEN LET high == _unicode_to_int(At(encoded, i))
                 low == _unicode_to_int(At(encoded, i + 1))
                 count == _unicode_to_int(At(encoded, i + 2))
                 pattern_val == BitOr(high.val * Pow2(bits_per_char), low.val)
                 byte1 == (pattern_val \div 256) % 256
                 byte2 == pattern_val % 256
             IN  IF ~high.ok \/ ~low.ok \/ ~count.ok THEN DecRaise(st)
                 ELSE [st EXCEPT !.i = i + 3,
                                 !.result = st.result \o
                                     PatternBytes(byte1, byte2, count.val)]
        ELSE [st EXCEPT !.i = i]

\* while bit_count >= 8: extract the top 8 bits
RECURSIVE ExtractBytes(_)
ExtractBytes(st) ==
    IF st.bit_count >= 8
    THEN LET bit_count == st.bit_count - 8
             byte_val == (st.bit_buffer \div Pow2(bit_count)) % 256
         IN  ExtractBytes([st EXCEPT !.bit_count = bit_count,
                                     !.result = Append(st.result, byte_val),
                                     !.bit_buffer = st.bit_buffer % Pow2(bit_count)])
    ELSE st

\* standard character: 12 bits into the accumulator; a character outside the
\* Private Use Area is skipped (except ValueError: pass)
DecodeStandard(encoded, st) ==
    LET value == _unicode_to_int(At(encoded, st.i))
    IN  IF value.ok
        THEN LET s == ExtractBytes(
                     [st EXCEPT !.bit_buffer =
                                    BitOr(st.bit_buffer * Pow2(bits_per_char),
                                          value.val),
                                !.bit_count = st.bit_count + bits_per_char])
             IN  [s EXCEPT !.i = st.i + 1]
        ELSE [st EXCEPT !.i = st.i + 1]

DecodeStep(encoded, st) ==
    LET br == DecodeBranch(encoded, st.i)
    IN  IF br = "zero_run" THEN DecodeRun(encoded, st, 0)
        ELSE IF br = "one_run" THEN DecodeRun(encoded, st, 255)
        ELSE IF br = "repeat_2" THEN DecodeRepeat(encoded, st)
        ELSE DecodeStandard(encoded, st)

RECURSIVE DecodeLoop(_, _)
DecodeLoop(encoded, st) ==
    IF st.ok /\ st.i < Len(encoded)
    THEN DecodeLoop(encoded, DecodeStep(encoded, st))
    ELSE st

\* [ok, val]: the bytes, or the ValueError that escaped
_decode_to_bytes(encoded) ==
    LET st == DecodeLoop(encoded, DecState(0, << >>, 0, 0))
    IN  IF st.ok THEN Ok(st.result) ELSE Raise

(***************************************************************************)
(* decode_string                                                           *)
(***************************************************************************)
FALLBACK_FORMAT == ".bin"

FileFormat(format_char) ==
    IF <<format_char>> \notin ReverseKeys THEN FALLBACK_FORMAT
    ELSE REVERSE_FORMAT_MAP(<<format_char>>)

\* for char in size_header: original_size = (original_size << 12) | val
RECURSIVE OriginalSize(_, _)
OriginalSize(size_header, original_size) ==
    IF size_header = << >> THEN Ok(original_size)
    ELSE LET val == _unicode_to_int(Head(size_header))
         IN  IF ~val.ok THEN Raise
             ELSE OriginalSize(Tail(size_header),
                               BitOr(original_size * 4096, val.val))

\* DataPart dropping the last character whether or not it is the end marker.
DataPart_AlwaysStrip(encoded) ==
    LET data_part == Slice(encoded, 5, Len(encoded))
    IN  Slice(data_part, 0, Len(data_part) - 1)

\* encoded[5:] without a trailing end marker
DataPart(encoded) ==
    LET data_part == Slice(encoded, 5, Len(encoded))
    IN  IF data_part # << >> /\ data_part[Len(data_part)] = end_marker
        THEN Slice(data_part, 0, Len(data_part) - 1)
        ELSE data_part

\* decoded_bytes[:original_size] when longer than original_size
Trim(decoded_bytes, original_size) ==
    IF Len(decoded_bytes) > original_size
    THEN Slice(decoded_bytes, 0, original_size)
    ELSE decoded_bytes

\* DecodeReject with the length test off by one (len(encoded) < 5).
DecodeReject_ShortByOne(encoded) ==
    IF encoded = << >> THEN "Empty encoded string"
    ELSE IF Len(encoded) < 5 THEN "Encoded data too short"
    ELSE IF ~OriginalSize(Slice(encoded, 1, 5), 0).ok
         THEN "Invalid size header character"
    ELSE "none"

\* why decode_string raises before the payload is decoded, or "none"
DecodeReject(encoded) ==
    IF encoded = << >> THEN "Empty encoded string"
    ELSE IF Len(encoded) < 6 THEN "Encoded data too short"
    ELSE IF ~OriginalSize(Slice(encoded, 1, 5), 0).ok
         THEN "Invalid size header character"
    ELSE "none"

\* [ok, bytes, format]: ok = FALSE when decode_string raises ValueError
Raised == [ok |-> FALSE, bytes |-> << >>, format |-> ""]

decode_string(encoded) ==
    IF DecodeReject(encoded) # "none" THEN Raised
    ELSE LET decoded_bytes == _decode_to_bytes(DataPart(encoded))
         IN  IF ~decoded_bytes.ok THEN Raised
             ELSE [ok |-> TRUE,
                   bytes |-> Trim(decoded_bytes.val,
                                  OriginalSize(Slice(encoded, 1, 5), 0).val),
                   format |-> FileFormat(encoded[1])]

(***************************************************************************)
(* Inputs.                                                                 *)
(***************************************************************************)
Bytes == {0, 255, 18, 171}

RECURSIVE SeqsUpTo(_, _)
SeqsUpTo(S, n) ==
    IF n = 0 THEN {<< >>}
    ELSE LET shorter == SeqsUpTo(S, n - 1)
         IN  shorter \cup {Append(s, x) : s \in {t \in shorter : Len(t) = n - 1},
                                            x \in S}

\* motif repeated n times
Motif(b1, b2, n) == [k \in 1..(2 * n) |-> IF k % 2 = 1 THEN b1 ELSE b2]

ShortBuffers == SeqsUpTo(Bytes, MaxLen)

MotifBuffers ==
    {Motif(b1, b2, n) : b1 \in Bytes, b2 \in Bytes,
                        n \in {3, 4, PATTERN_LOOP_BOUND, PATTERN_LOOP_BOUND + 1}}

RunLens == {4, 10} \cup ((values_per_char - 2)..MaxRun)

RunBuffers ==
    {p \o Repeat(b, n) \o s : p \in {<< >>, <<18>>}, b \in {0, 255},
                              n \in RunLens, s \in {<< >>, <<171>>, <<18, 171>>}}

Buffers == ShortBuffers \cup MotifBuffers \cup RunBuffers

\* packed bytes, a run, packed bytes, and a run or a pattern or nothing
MixedBuffers ==
    {p \o Repeat(b, n) \o s \o t :
         p \in SeqsUpTo({18, 171}, 3), b \in {0, 255}, n \in 4..6,
         s \in SeqsUpTo({18, 171}, 3),
         t \in {<< >>, Repeat(255, 4), Motif(18, 171, 3)}}

\* lower-cased suffixes: every key of FORMAT_MAP and two unregistered ones
Unregistered == {".zzz", ".tlaplus"}
Exts == FormatKeys \cup Unregistered
SampleExts == {".txt", ".avi", ".rar", ".bin", "", ".zzz"}
SampleBuffers == {<< >>, <<18>>, <<18, 171, 0, 0, 0, 0, 0, 255>>}

Inputs ==
    (Buffers \X SampleExts) \cup (SampleBuffers \X Exts)
    \cup (MixedBuffers \X {".txt"})

VARIABLES
    pc,             \* the statement the program is at
    data, ext,      \* encode_file: bytes read, filepath.suffix.lower()
    format_char,    \* encode_file: the tag string
    i, result,      \* _encode_bytes: cursor and output list
    encoded,        \* the artifact: result of encode_file, input of decode_string
    file_format, original_size, data_part,          \* decode_string locals
    dec_i, dec_result, bit_buffer, bit_count,       \* _decode_to_bytes locals
    decoded_bytes,  \* decode_string: the bytes returned
    value, char, back   \* _int_to_unicode argument, its result, and the
                        \* result of _unicode_to_int on it

vars == <<pc, data, ext, format_char, i, result, encoded, file_format,
          original_size, data_part, dec_i, dec_result, bit_buffer, bit_count,
          decoded_bytes, value, char, back>>

encVars == <<format_char, i, result>>
decVars == <<file_format, original_size, data_part, dec_i, dec_result,
             bit_buffer, bit_count, decoded_bytes>>
alphaVars == <<value, char, back>>

InitEnc == format_char = << >> /\ i = 0 /\ result = << >>
InitDec ==
    /\ file_format = "" /\ original_size = 0 /\ data_part = << >>
    /\ dec_i = 0 /\ dec_result = << >> /\ bit_buffer = 0 /\ bit_count = 0
    /\ decoded_bytes = << >>
InitAlpha == value = 0 /\ char = 0 /\ back = 0

(***************************************************************************)
(* Encode a file, then decode the artifact.                                *)
(***************************************************************************)
Init ==
    /\ pc = "encode_file"
    /\ \E in \in Inputs : data = in[1] /\ ext = in[2]
    /\ encoded = << >>
    /\ InitEnc /\ InitDec /\ InitAlpha

\* encode_file: ext in FORMAT_MAP
EncodeRegistered ==
    /\ pc = "encode_file"
    /\ ext \in FormatKeys
    /\ format_char' = FormatChar(ext)
    /\ pc' = "_encode_bytes"
    /\ UNCHANGED <<data, ext, i, result, encoded, decVars, alphaVars>>

\* encode_file: unregistered extension, generic format
EncodeUnregistered ==
    /\ pc = "encode_file"
    /\ ext \notin FormatKeys
    /\ format_char' = FormatChar(ext)
    /\ pc' = "_encode_bytes"
    /\ UNCHANGED <<data, ext, i, result, encoded, decVars, alphaVars>>

\* one iteration of the loop of _encode_bytes taking branch br
EncodeIter(br) ==
    /\ i < Len(data)
    /\ EncodeBranch(data, i) = br
    /\ LET s == EncodeStep(data, i, result)
       IN  i' = s.i /\ result' = s.result
    /\ UNCHANGED <<pc, data, ext, format_char, encoded, decVars, alphaVars>>

EncZeroRun == pc = "_encode_bytes" /\ EncodeIter("zero_run")
EncOneRun == pc = "_encode_bytes" /\ EncodeIter("one_run")
EncRepeat == pc = "_encode_bytes" /\ EncodeIter("repeat_2")
EncPack3 == pc = "_encode_bytes" /\ EncodeIter("pack3")
EncPack2 == pc = "_encode_bytes" /\ EncodeIter("pack2")
EncPack1 == pc = "_encode_bytes" /\ EncodeIter("pack1")

\* the loop ends; encode_file frames the payload and returns
EncodeReturn ==
    /\ pc = "_encode_bytes"
    /\ i >= Len(data)
    /\ encoded' = Frame(format_char, data, result)
    /\ pc' = "decode_string"
    /\ UNCHANGED <<data, ext, encVars, decVars, alphaVars>>

\* decode_string(encoded) returns
DecodeOk ==
    /\ pc = "decode_string"
    /\ decode_string(encoded).ok
    /\ decoded_bytes' = decode_string(encoded).bytes
    /\ file_format' = decode_string(encoded).format
    /\ pc' = "done"
    /\ UNCHANGED <<data, ext, encVars, encoded, original_size, data_part,
                   dec_i, dec_result, bit_buffer, bit_count, alphaVars>>

\* decode_string(encoded) raises ValueError
DecodeRaises ==
    /\ pc = "decode_string"
    /\ ~decode_string(encoded).ok
    /\ pc' = "raised"
    /\ UNCHANGED <<data, ext, encVars, encoded, decVars, alphaVars>>

Next ==
    \/ EncodeRegistered \/ EncodeUnregistered
    \/ EncZeroRun \/ EncOneRun \/ EncRepeat
    \/ EncPack3 \/ EncPack2 \/ EncPack1
    \/ EncodeReturn
    \/ DecodeOk \/ DecodeRaises

Spec == Init /\ [][Next]_vars

(***************************************************************************)
(* decode_string on an arbitrary string, _decode_to_bytes step by step.    *)
(***************************************************************************)
TXT_TAG == FormatGet(".txt")[1]
UNKNOWN_TAG == PRIVATE_USE_END + 1     \* U+F900, no tag of the catalog
STRAY == PRIVATE_USE_START - 1         \* U+DFFF, just below the Private Use Area
BEYOND_12_BITS == PRIVATE_USE_START + values_per_char
                               \* in the Private Use Area, value 4096

PayloadSymbols ==
    {Sym(4), BEYOND_12_BITS, STRAY, zero_run, one_run, repeat_2, escape,
     end_marker}

Payloads == SeqsUpTo(PayloadSymbols, MaxPayload)

SamplePayloads ==
    {<< >>, <<Sym(4)>>, <<zero_run, Sym(4)>>, <<STRAY, Sym(4), Sym(4)>>}

Headers ==
    {<<Sym(0), Sym(0), Sym(0), Sym(n)>> : n \in {0, 2, 4095}}
    \cup {<<Sym(0), Sym(0), Sym(1), Sym(0)>>,
          <<Sym(0), Sym(0), Sym(0), BEYOND_12_BITS>>,
          <<Sym(0), STRAY, Sym(0), Sym(2)>>,
          <<Sym(0), Sym(0), Sym(0), end_marker>>}

Terminators == {<< >>, <<end_marker>>}

FullArtifacts ==
    {<<TXT_TAG>> \o <<Sym(0), Sym(0), Sym(1), Sym(0)>> \o p \o t :
         p \in Payloads, t \in Terminators}
    \cup {<<tag>> \o h \o p \o t :
              tag \in {TXT_TAG, UNKNOWN_TAG}, h \in Headers,
              p \in SamplePayloads, t \in Terminators}

\* strings of fewer than 6 code points
ShortArtifacts ==
    {Slice(<<tag>> \o h \o <<Sym(4)>>, 0, n) :
         tag \in {TXT_TAG, UNKNOWN_TAG}, h \in Headers, n \in 0..5}

Artifacts == FullArtifacts \cup ShortArtifacts

InitDecode ==
    /\ pc = "decode_string"
    /\ encoded \in Artifacts
    /\ data = << >> /\ ext = ""
    /\ InitEnc /\ InitDec /\ InitAlpha

\* decode_string raises before decoding the payload
Reject(why) ==
    /\ DecodeReject(encoded) = why
    /\ pc' = "raised"
    /\ UNCHANGED <<data, ext, encVars, encoded, decVars, alphaVars>>

RejectEmpty == pc = "decode_string" /\ Reject("Empty encoded string")
RejectShort == pc = "decode_string" /\ Reject("Encoded data too short")
RejectHeader == pc = "decode_string" /\ Reject("Invalid size header character")

\* decode_string up to the call of _decode_to_bytes
DecodeBegin ==
    /\ pc = "decode_string"
    /\ DecodeReject(encoded) = "none"
    /\ file_format' = FileFormat(encoded[1])
    /\ original_size' = OriginalSize(Slice(encoded, 1, 5), 0).val
    /\ data_part' = DataPart(encoded)
    /\ dec_i' = 0 /\ dec_result' = << >> /\ bit_buffer' = 0 /\ bit_count' = 0
    /\ pc' = "_decode_to_bytes"
    /\ UNCHANGED <<data, ext, encVars, encoded, decoded_bytes, alphaVars>>

DecLoopState == DecState(dec_i, dec_result, bit_buffer, bit_count)

\* one iteration of the loop of _decode_to_bytes taking branch br
DecodeIter(br) ==
    /\ dec_i < Len(data_part)
    /\ DecodeBranch(data_part, dec_i) = br
    /\ LET s == DecodeStep(data_part, DecLoopState)
       IN  /\ s.ok
           /\ dec_i' = s.i /\ dec_result' = s.result
           /\ bit_buffer' = s.bit_buffer /\ bit_count' = s.bit_count
    /\ UNCHANGED <<pc, data, ext, encVars, encoded, file_format,
                   original_size, data_part, decoded_bytes, alphaVars>>

DecZeroRun == pc = "_decode_to_bytes" /\ DecodeIter("zero_run")
DecOneRun == pc = "_decode_to_bytes" /\ DecodeIter("one_run")
DecRepeat == pc = "_decode_to_bytes" /\ DecodeIter("repeat_2")
DecStandard == pc = "_decode_to_bytes" /\ DecodeIter("standard")
DecSkip == pc = "_decode_to_bytes" /\ DecodeIter("skip")

\* _unicode_to_int raises on an operand of a token: the ValueError leaves
\* _decode_to_bytes and decode_string
DecOperandRaises ==
    /\ pc = "_decode_to_bytes"
    /\ dec_i < Len(data_part)
    /\ ~DecodeStep(data_part, DecLoopState).ok
    /\ pc' = "raised"
    /\ UNCHANGED <<data, ext, encVars, encoded, decVars, alphaVars>>

\* the loop ends; decode_string trims and returns
DecodeReturn ==
    /\ pc = "_decode_to_bytes"
    /\ dec_i >= Len(data_part)
    /\ decoded_bytes' = Trim(dec_result, original_size)
    /\ pc' = "done"
    /\ UNCHANGED <<data, ext, encVars, encoded, file_format, original_size,
                   data_part, dec_i, dec_result, bit_buffer, bit_count,
                   alphaVars>>

NextDecode ==
    \/ RejectEmpty \/ RejectShort \/ RejectHeader
    \/ DecodeBegin
    \/ DecZeroRun \/ DecOneRun \/ DecRepeat \/ DecStandard \/ DecSkip
    \/ DecOperandRaises
    \/ DecodeReturn

SpecDecode == InitDecode /\ [][NextDecode]_vars

(***************************************************************************)
(* The alphabet: _int_to_unicode, then _unicode_to_int on its result.      *)
(***************************************************************************)
Values ==
    ((0 - VMargin)..(values_per_char - 1 + VMargin))
    \cup ((0 - PRIVATE_USE_START - VMargin)..(0 - PRIVATE_USE_START))

InitAlphabet ==
    /\ pc = "_int_to_unicode"
    /\ value \in Values
    /\ char = 0 /\ back = 0
    /\ data = << >> /\ ext = "" /\ encoded = << >>
    /\ InitEnc /\ InitDec

IntToUnicode ==
    /\ pc = "_int_to_unicode"
    /\ _int_to_unicode(value).ok
    /\ char' = _int_to_unicode(value).val
    /\ pc' = "_unicode_to_int"
    /\ UNCHANGED <<data, ext, encVars, encoded, decVars, value, back>>

IntToUnicodeRaises ==
    /\ pc = "_int_to_unicode"
    /\ ~_int_to_unicode(value).ok
    /\ pc' = "raised"
    /\ UNCHANGED <<data, ext, encVars, encoded, decVars, alphaVars>>

UnicodeToInt ==
    /\ pc = "_unicode_to_int"
    /\ _unicode_to_int(char).ok
    /\ back' = _unicode_to_int(char).val
    /\ pc' = "done"
    /\ UNCHANGED <<data, ext, encVars, encoded, decVars, value, char>>

UnicodeToIntRaises ==
    /\ pc = "_unicode_to_int"
    /\ ~_unicode_to_int(char).ok
    /\ pc' = "raised"
    /\ UNCHANGED <<data, ext, encVars, encoded, decVars, alphaVars>>

NextAlphabet ==
    \/ IntToUnicode \/ IntToUnicodeRaises
    \/ UnicodeToInt \/ UnicodeToIntRaises

SpecAlphabet == InitAlphabet /\ [][NextAlphabet]_vars

(***************************************************************************)
(* Properties.                                                             *)
(***************************************************************************)
Encoded == pc = "decode_string"          \* encode_file has returned
Finished == pc \in {"done", "raised"}    \* decode_string has returned or raised

\* s[:-1]
ButLast(s) == Slice(s, 0, Len(s) - 1)

\* s without its element at Python index p
RemoveAt(s, p) == Slice(s, 0, p) \o Slice(s, p + 1, Len(s))

\* C1: round trip.  Decoding the artifact encode_file produced succeeds and
\* returns the bytes that were encoded and the extension the chosen tag
\* resolves to in the inverse catalog.
C1_RoundTrip ==
    Finished =>
        /\ pc = "done"
        /\ decoded_bytes = data
        /\ file_format = REVERSE_FORMAT_MAP(FormatChar(ext))

\* C2: boundary run length.  A buffer that is one run of 0x00 or of 0xFF of
\* length 4095 or 4096 encodes to a payload that decodes to the same buffer,
\* of the same length.
BoundaryRuns ==
    {Repeat(b, n) : b \in {0, 255},
                    n \in {values_per_char - 1, values_per_char}}

C2_BoundaryRun ==
    (Encoded /\ data \in BoundaryRuns) =>
        /\ _decode_to_bytes(result).ok
        /\ Len(_decode_to_bytes(result).val) = Len(data)
        /\ _decode_to_bytes(result).val = data

\* C3: artifact layout.  The artifact is 1 tag symbol, 4 packed symbols that
\* hold the byte count as a 48-bit number, most significant 12 bits first,
\* the payload, and 1 terminator symbol.
IsPacked(c) == c \in PRIVATE_USE_START..(PRIVATE_USE_START + values_per_char - 1)

C3_Layout ==
    Encoded =>
        /\ Len(encoded) = 1 + 4 + Len(result) + 1
        /\ <<encoded[1]>> \in ReverseKeys
        /\ \A k \in 2..5 : IsPacked(encoded[k])
        /\ encoded[5] - PRIVATE_USE_START = Len(data) % 4096
        /\ encoded[4] - PRIVATE_USE_START = (Len(data) \div 4096) % 4096
        /\ encoded[3] - PRIVATE_USE_START = ((Len(data) \div 4096) \div 4096) % 4096
        /\ encoded[2] - PRIVATE_USE_START
               = (((Len(data) \div 4096) \div 4096) \div 4096) % 4096
        /\ Slice(encoded, 5, Len(encoded) - 1) = result
        /\ encoded[Len(encoded)] = end_marker

\* C4 as stated: decode_string raises exactly when the string has fewer than
\* 6 symbols (and then returns no bytes); any string of 6 or more symbols
\* decodes to a result.
C4_FailureIsStructural ==
    Finished =>
        /\ pc = "raised" <=> Len(encoded) < 6
        /\ pc = "raised" => decoded_bytes = << >>

\* C4, amended: decode_string raises, returning no bytes, exactly when the
\* string has fewer than 6 symbols, or one of its 4 header symbols is outside
\* the Private Use Area U+E000..U+F8FF, or the decoder reaches a run
\* sentinel whose operand is outside that range (the symbol after a zero-run
\* or one-run sentinel; one of the 3 symbols after a pattern sentinel that
\* has at least 3 symbols after it).  Every other string, whatever its tag,
\* its stray code points elsewhere or its truncated tokens, decodes to a
\* result.
InPrivateUse(c) == c \in PRIVATE_USE_START..PRIVATE_USE_END

BadHeader(s) == \E k \in 1..4 : ~InPrivateUse(At(s, k))

BadOperand(payload, k) ==
    \/ /\ At(payload, k) \in {zero_run, one_run}
       /\ k + 1 < Len(payload)
       /\ ~InPrivateUse(At(payload, k + 1))
    \/ /\ At(payload, k) = repeat_2
       /\ k + 3 < Len(payload)
       /\ \E m \in 1..3 : ~InPrivateUse(At(payload, k + m))

C4_FailureConditions ==
    [][/\ pc = "decode_string" =>
              IF Len(encoded) < 6 \/ BadHeader(encoded)
              THEN pc' = "raised" /\ decoded_bytes' = << >>
              ELSE pc' = "_decode_to_bytes"
       /\ pc = "_decode_to_bytes" =>
              IF dec_i < Len(data_part) /\ BadOperand(data_part, dec_i)
              THEN pc' = "raised" /\ decoded_bytes' = << >>
              ELSE \/ pc' = "_decode_to_bytes" /\ dec_i' > dec_i
                   \/ pc' = "done" /\ dec_i = Len(data_part)]_vars

C4_Witness ==
    /\ pc = "done"
    /\ Len(encoded) >= 6
    /\ <<encoded[1]>> \notin ReverseKeys
    /\ \E k \in 1..Len(data_part) : data_part[k] = STRAY

\* C5: lenient decode.  A payload symbol that is neither a packed value in
\* [0, 4095] nor a sentinel is skipped: wherever it stands, the payload
\* decodes to the same bytes, with the same bit accumulator, as the payload
\* without it.
Unrecognized(c) == ~IsPacked(c) /\ c \notin SPECIAL_CHARS

DecodeAll(payload) == DecodeLoop(payload, DecState(0, << >>, 0, 0))

SameDecoding(s, t) ==
    /\ s.ok /\ t.ok
    /\ s.result = t.result
    /\ s.bit_buffer = t.bit_buffer /\ s.bit_count = t.bit_count

C5_LenientSkip ==
    (pc = "_decode_to_bytes" /\ dec_i = 0) =>
        \A p \in 0..(Len(data_part) - 1) :
            Unrecognized(At(data_part, p)) =>
                SameDecoding(DecodeAll(data_part),
                             DecodeAll(RemoveAt(data_part, p)))

\* C6: alphabet bijection.  _unicode_to_int inverts _int_to_unicode on
\* [0, 4095], and _int_to_unicode returns nothing for an integer outside
\* [0, 4095].
C6_Bijection ==
    /\ (pc = "done" /\ value \in 0..(values_per_char - 1)) => back = value
    /\ value \notin 0..(values_per_char - 1)
           => pc \in {"_int_to_unicode", "raised"}

\* C7 as stated: an unregistered extension is encoded with the generic tag,
\* and decoding gives the extension decode_string falls back to for a tag it
\* does not recognize.
GenericTag == FormatGet("")

C7_SameFallback ==
    (Finished /\ ext \notin FormatKeys) =>
        /\ pc = "done"
        /\ format_char = GenericTag
        /\ file_format = FileFormat(UNKNOWN_TAG)

\* C7, amended: an unregistered extension is encoded with the generic tag
\* (one symbol, the tag of the empty extension), and decoding gives the
\* extension the inverse catalog holds for that tag, the empty extension,
\* which is not the ".bin" that decode_string falls back to for a tag it does
\* not recognize.
C7_GenericFallback ==
    (Finished /\ ext \notin FormatKeys) =>
        /\ pc = "done"
        /\ format_char = GenericTag
        /\ encoded[1] = GenericTag[1]
        /\ file_format = ""
        /\ file_format # FileFormat(UNKNOWN_TAG)

C7_Witness ==
    /\ pc = "done" /\ ext \notin FormatKeys /\ data # << >>
    /\ encoded[1] = GenericTag[1] /\ file_format = ""

\* C8 as stated: for every artifact of encode_file, the artifact without its
\* terminator is accepted by decode_string and decodes to the same result.
C8_TerminatorOptional ==
    Encoded =>
        /\ decode_string(ButLast(encoded)).ok
        /\ decode_string(ButLast(encoded)) = decode_string(encoded)

\* C8, amended: for every artifact encode_file produces from a non-empty
\* buffer, decode_string has the same outcome on the artifact without its
\* terminator as on the whole artifact (the same bytes and extension, or the
\* same rejection).  The artifact of an empty buffer with a one-symbol tag
\* decodes to the empty buffer, and without its terminator it has 5 symbols
\* and is rejected as too short.
C8_TerminatorOptionalNonEmpty ==
    Encoded =>
        IF data # << >>
        THEN /\ decode_string(ButLast(encoded)) = decode_string(encoded)
             /\ DecodeReject(ButLast(encoded)) = DecodeReject(encoded)
        ELSE Len(format_char) = 1 =>
                 /\ decode_string(encoded).ok
                 /\ decode_string(encoded).bytes = << >>
                 /\ DecodeReject(ButLast(encoded)) = "Encoded data too short"

C8_Witness ==
    /\ Encoded /\ Len(data) >= 3
    /\ encoded[Len(encoded)] = end_marker
    /\ decode_string(ButLast(encoded)).ok
    /\ decode_string(ButLast(encoded)).bytes = data

\* C9: cursor/count agreement.  An iteration of _encode_bytes that emits a
\* run token advances the cursor by the count written into the token (zero
\* and one run) or by twice that count (pattern repeat).
EmitsToken(sentinel) ==
    /\ pc = "_encode_bytes"
    /\ Len(result') > Len(result)
    /\ result'[Len(result) + 1] = sentinel

C9_CursorMatchesCount ==
    [][/\ EmitsToken(zero_run) \/ EmitsToken(one_run)
          => i' - i = result'[Len(result) + 2] - PRIVATE_USE_START
       /\ EmitsToken(repeat_2)
          => i' - i = 2 * (result'[Len(result) + 4] - PRIVATE_USE_START)]_vars

\* C10 as stated: the 8-byte buffer of a 2-byte motif repeated 4 times
\* encodes to one PatternRepeat token (sentinel, top 4 bits and low 12 bits
\* of the motif, count 4), which decodes to the same 8 bytes.
IsMotif4 == Len(data) = 8 /\ data = Motif(data[1], data[2], 4)

PatternToken(b1, b2, n) ==
    <<repeat_2, PRIVATE_USE_START + ((b1 * 256 + b2) \div 4096),
      PRIVATE_USE_START + ((b1 * 256 + b2) % 4096), PRIVATE_USE_START + n>>

C10_PatternExactness ==
    (Encoded /\ IsMotif4) =>
        /\ result = PatternToken(data[1], data[2], 4)
        /\ _decode_to_bytes(result) = Ok(data)

\* C10, amended: the 8-byte buffer of a 2-byte motif repeated 4 times, the
\* motif being neither 00 00 nor FF FF, encodes to one PatternRepeat token
\* (sentinel, top 4 bits and low 12 bits of the motif, count 4); for the
\* motifs 00 00 and FF FF the zero run and the one run come first and the
\* payload is one ZeroRun or OneRun token of count 8.  Either payload
\* decodes to the same 8 bytes.
C10_PatternExactnessByPriority ==
    (Encoded /\ IsMotif4) =>
        /\ result =
               IF data[1] = 0 /\ data[2] = 0
               THEN <<zero_run, PRIVATE_USE_START + 8>>
               ELSE IF data[1] = 255 /\ data[2] = 255
               THEN <<one_run, PRIVATE_USE_START + 8>>
               ELSE PatternToken(data[1], data[2], 4)
        /\ _decode_to_bytes(result) = Ok(data)

C10_Witness ==
    /\ Encoded /\ IsMotif4 /\ data[1] # data[2]
    /\ result[1] = repeat_2 /\ Len(result) = 4

\* C11: accumulator alignment.  Every group _encode_bytes packs before its
\* last output is 3 bytes emitted as 2 symbols; a padded group (2 bytes or 1
\* byte) is the very last output.  So when a run token is emitted the packed
\* symbols since the previous token (or the start) are whole 2-symbol
\* groups, and _decode_to_bytes, decoding the payload, holds 0 pending bits
\* each time it reaches a sentinel symbol.
RunSentinels == {zero_run, one_run, repeat_2}

\* the state of the loop of _decode_to_bytes when its cursor first reaches k
RECURSIVE DecodeUntil(_, _, _)
DecodeUntil(payload, st, k) ==
    IF st.ok /\ st.i < k
    THEN DecodeUntil(payload, DecodeStep(payload, st), k)
    ELSE st

\* the number of packed symbols at the end of out, after its last run token
TrailingPacked(out) ==
    LET toks == {k \in 1..Len(out) : out[k] \in RunSentinels}
    IN  IF toks = {} THEN Len(out)
        ELSE LET last == CHOOSE k \in toks : \A m \in toks : m <= k
             IN  Len(out) - last - (IF out[last] = repeat_2 THEN 3 ELSE 1)

PacksGroup ==
    /\ pc = "_encode_bytes"
    /\ Len(result') > Len(result)
    /\ result'[Len(result) + 1] \notin RunSentinels

AlignedAtSentinels(payload) ==
    \A k \in 0..(Len(payload) - 1) :
        At(payload, k) \in RunSentinels =>
            LET st == DecodeUntil(payload, DecState(0, << >>, 0, 0), k)
            IN  st.ok /\ st.i = k /\ st.bit_count = 0 /\ st.bit_buffer = 0

C11_AccumulatorAlignment ==
    [][/\ PacksGroup =>
              IF i' < Len(data)
              THEN i' - i = 3 /\ Len(result') = Len(result) + 2
              ELSE i' - i \in 1..3 /\ Len(result') - Len(result) \in 1..2
       /\ (\E s \in RunSentinels : EmitsToken(s)) =>
              /\ TrailingPacked(result) % 2 = 0
              /\ DecodeAll(result).bit_count = 0
       /\ (pc = "_encode_bytes" /\ pc' = "decode_string") =>
              AlignedAtSentinels(result)]_vars

C11_Witness ==
    /\ Encoded
    /\ \E k \in 3..(Len(result) - 2) :
           /\ result[k] \in RunSentinels
           /\ \A m \in 1..(k - 1) : IsPacked(result[m])
    /\ IsPacked(result[Len(result)])
    /\ Len(data) % 3 # 0
    /\ TrailingPacked(result) = 1
=============================================================================
